---- MODULE Spec2Model ----
(***************************************************************************)
(* SmartStock: the order screen (frontend/app/Order-product.tsx), the      *)
(* replenishment commit it sends, and the ledger, replenishment log and    *)
(* cadence row of backend/init_db.sql the commit acts on.                  *)
(*                                                                         *)
(* JavaScript strings that are converted to or from numbers are modelled   *)
(* as sequences of one-character strings, so that Number(), parseInt() and *)
(* String() are computed, not assumed.                                     *)
(***************************************************************************)
EXTENDS Integers, Sequences, FiniteSets, TLC

\* ------------------------------------------------------------------ bounds
MaxQty == 2          \* the + stepper is pressed only below this quantity
MaxLog == 2          \* commits are accepted while the log is shorter
MaxPending == 2      \* commit requests one screen may have outstanding
MaxSales == 1        \* sales by other actors
MaxDay == 2          \* the last calendar day
MaxInserts == 2      \* rows added to a table after the seed
MaxHistoryCalls == 2 \* history requests the stock screen may have outstanding
MaxHelpCalls == 2    \* help requests that may be outstanding

\* --------------------------------------------------------------- constants
NULL == <<>>         \* JavaScript null / undefined, SQL NULL, NaN
Some(x) == <<x>>     \* a value that may be NULL, when it is not
STORE_ID == 1
MANAGER_ROLE == 2
DEFAULT_MANAGER_ID == 2
DEFAULT_USER_ID == 1
PRODUCT_ID == 1

Clients == {1, 2}
OpenScreens == {1}   \* the clients whose order screen is open
Users == {1, 2}
Batches == {1, 2}

\* role of a user: user 2 is "the default manager", user 1 an employee
RoleOf(u) == IF u = DEFAULT_MANAGER_ID THEN MANAGER_ROLE ELSE 1

\* BATCH.expiration_date is nullable: batch 1 is dated, batch 2 is not
ExpirationDate(b) == IF b = 1 THEN Some(5) ELSE NULL

\* ----------------------------------------------------- string conversions
Digits == <<"0", "1", "2", "3", "4", "5", "6", "7", "8", "9">>

IsDigit(ch) == \E i \in 1..10 : Digits[i] = ch

DigitVal(ch) == (CHOOSE i \in 1..10 : Digits[i] = ch) - 1

RECURSIVE NatString(_)
NatString(n) == IF n < 10 THEN <<Digits[n + 1]>>
                ELSE NatString(n \div 10) \o <<Digits[(n % 10) + 1]>>

\* String(n) for an integer n
String(n) == IF n < 0 THEN <<"-">> \o NatString(0 - n) ELSE NatString(n)

RECURSIVE DigitsValue(_)
DigitsValue(s) == IF s = <<>> THEN 0
                  ELSE 10 * DigitsValue(SubSeq(s, 1, Len(s) - 1)) + DigitVal(s[Len(s)])

AllDigits(s) == \A i \in 1..Len(s) : IsDigit(s[i])

\* Number(s) for a string s: "" is 0, a signed decimal is its value, else
\* NaN (NULL)
Number(s) ==
  IF s = <<>> THEN Some(0)
  ELSE IF AllDigits(s) THEN Some(DigitsValue(s))
  ELSE IF Len(s) > 1 /\ s[1] = "-" /\ AllDigits(Tail(s))
       THEN Some(0 - DigitsValue(Tail(s)))
  ELSE NULL

\* the longest prefix of s made of digits
RECURSIVE DigitPrefix(_)
DigitPrefix(s) == IF s = <<>> \/ ~IsDigit(Head(s)) THEN <<>>
                  ELSE <<Head(s)>> \o DigitPrefix(Tail(s))

\* parseInt(s): an optional sign and the leading digits, NaN (NULL) when
\* there are none
parseInt(s) ==
  LET neg == s # <<>> /\ Head(s) = "-"
      rest == IF s # <<>> /\ Head(s) \in {"-", "+"} THEN Tail(s) ELSE s
      ds == DigitPrefix(rest)
  IN  IF ds = <<>> THEN NULL
      ELSE Some(IF neg THEN 0 - DigitsValue(ds) ELSE DigitsValue(ds))

\* x || y, for a number x that may be NaN
OrElse(x, y) == IF x = NULL THEN y ELSE IF x[1] = 0 THEN y ELSE x[1]

Max(a, b) == IF a >= b THEN a ELSE b

\* texts typed into the quantity field of the override form
TypedQuantities == {<<"3">>, <<"x">>}
\* contents given to the Reason, priority and Notes fields of the form
TypedForms == {[reason |-> "promo", priority |-> "Low", notes |-> "urgent"],
               [reason |-> "", priority |-> "Medium", notes |-> "urgent"]}

\* the cards of the predictions screen and their suggested quantities
Cards == {1, 2, 3}
SuggestedQuantity == <<48, 30, 24>>

\* texts typed into the quantity field of a prediction card
TypedOverrideValues == {<<>>, <<"7">>, <<"1", "2", "x">>}

\* -------------------------------------------------------------------- state
VARIABLES
  \* persistence (backend/init_db.sql)
  stock,            \* HAS_STOCK.quantity of store 1, per batch
  log,              \* REPLENISHMENT_LOG rows, in insertion order
  cadence,          \* REPLENISHMENT_FREQUENCY row of (product, store)
  saleLines,        \* SALE_LINE rows, as units sold per batch
  sessionUser,      \* the backend's session user
  today,            \* the calendar day
  \* order screen, per client
  value, overrideQuantity, modalVisible, reason, priority, notes,
  currentUser, loadingUser, fifoBatch, selectedBatchId, orderConfirmation,
  alert,            \* title of the last Alert.alert
  userPc,           \* fetchCurrentUser: "get", "post", "done"
  fifoPc,           \* fetchFifoBatch: "pending", "done"
  inflight,         \* commit requests sent and not yet completed
  \* predictions screen, per card
  predictions,      \* suggestedQuantity of each prediction
  isEditing, overrideValue,
  \* history
  origin,           \* per log row: the commits in flight when it was written
  stock0,           \* the ledger as seeded
  \* FIFO Allocator, on a ledger of its own
  ledger,           \* HAS_STOCK.quantity per batch of one (store, product)
  expiry,           \* BATCH.expiration_date per batch
  fifoResult,       \* the allocator's answer, once asked
  \* stock overview
  stockRow,         \* a HAS_STOCK row: quantity and reorder_level
  classified,       \* the Stock Classifier's output for stockRow, once computed
  item,             \* a StockOverview item as the stock screen receives it
  shownPriority,    \* the replenishment priority ProductRow shows for item
  \* replenishment frequency
  replenishmentFreq,   \* the frequency selected on the Settings screen
  frequencyRequest,    \* the last request to set the cadence row's frequency
  \* the tables of init_db.sql, row by row
  hasStockRows,        \* HAS_STOCK rows; the index of a row is its stock_id
  frequencyRows,       \* REPLENISHMENT_FREQUENCY rows; the index is frequency_id
  statement,           \* the last INSERT statement and its outcome
  \* stock screen: the replenishment history modal
  historyModal,        \* Stock.modalVisible
  history,             \* Stock.history, the rows the modal lists
  historyLoading,      \* Stock.historyLoading
  historyCalls,        \* the product ids of the history requests in flight
  requested,           \* the product id of the latest viewHistory call
  \* stock screen: the overview list
  forecastInput,       \* total quantity and average daily sales of a product
  overviewJson,        \* the item GET /stock/overview answers with, once computed
  stockData,           \* Stock.data
  stockError,          \* Stock.error
  stockLoading,        \* Stock.loading
  daysText,            \* the text ProductRow shows after "Days to OOS:"
  \* help service
  cache,               \* HelpService.cache, per metric key
  allHelpCache,        \* HelpService.allHelpCache
  helpCalls,           \* the help requests in flight
  helpResult           \* the key and the value of the last getHelp that returned

serverVars == <<stock, log, cadence, saleLines, sessionUser, today>>
formVars == <<overrideQuantity, modalVisible, reason, priority, notes>>
userVars == <<currentUser, loadingUser, userPc>>
fifoVars == <<fifoBatch, selectedBatchId, fifoPc>>
histVars == <<origin, stock0>>
allocVars == <<ledger, expiry, fifoResult>>
stockVars == <<stockRow, classified, item, shownPriority>>
settingsVars == <<replenishmentFreq, frequencyRequest>>
schemaVars == <<hasStockRows, frequencyRows, statement>>
modalVars == <<historyModal, history, historyLoading, historyCalls, requested>>
listVars == <<forecastInput, overviewJson, stockData, stockError, stockLoading, daysText>>
helpVars == <<cache, allHelpCache, helpCalls, helpResult>>
panelVars == <<allocVars, stockVars, settingsVars, schemaVars, modalVars, listVars,
               helpVars>>
\* the panels other than the one named
exceptAlloc == <<stockVars, settingsVars, schemaVars, modalVars, listVars, helpVars>>
exceptStock == <<allocVars, settingsVars, schemaVars, modalVars, listVars, helpVars>>
exceptSettings == <<allocVars, stockVars, schemaVars, modalVars, listVars, helpVars>>
exceptSchema == <<allocVars, stockVars, settingsVars, modalVars, listVars, helpVars>>
exceptModal == <<allocVars, stockVars, settingsVars, schemaVars, listVars, helpVars>>
exceptList == <<allocVars, stockVars, settingsVars, schemaVars, modalVars, helpVars>>
exceptHelp == <<allocVars, stockVars, settingsVars, schemaVars, modalVars, listVars>>
otherScreens == <<predictions, isEditing, overrideValue, panelVars>>
orderVars == <<value, formVars, userVars, fifoVars, orderConfirmation, alert, inflight>>
coreVars == <<serverVars, orderVars, histVars, predictions, isEditing, overrideValue>>
vars == <<stock, log, cadence, saleLines, sessionUser, today,
          value, overrideQuantity, modalVisible, reason, priority, notes,
          currentUser, loadingUser, fifoBatch, selectedBatchId,
          orderConfirmation, alert, userPc, fifoPc, inflight,
          predictions, isEditing, overrideValue, origin, stock0,
          ledger, expiry, fifoResult, stockRow, classified, item, shownPriority,
          replenishmentFreq, frequencyRequest,
          hasStockRows, frequencyRows, statement,
          historyModal, history, historyLoading, historyCalls, requested,
          forecastInput, overviewJson, stockData, stockError, stockLoading, daysText,
          cache, allHelpCache, helpCalls, helpResult>>

\* ---------------------------------------------------------------- helpers
\* currentUser?.role_id and currentUser?.user_id
RoleId(c) == IF currentUser[c] = NULL THEN NULL ELSE Some(currentUser[c][1].role_id)

UserId(c) == IF currentUser[c] = NULL THEN NULL ELSE Some(currentUser[c][1].user_id)

IsManager(c) == RoleId(c) = Some(MANAGER_ROLE)

\* the order screen of client c is open
Mounted(c) == userPc[c] # "off"

RemoveAt(s, i) == SubSeq(s, 1, i - 1) \o SubSeq(s, i + 1, Len(s))

\* as BeforeBy, with ties going to the highest batch identity
BeforeByLatestId(exp, a, b) ==
  LET ea == exp[a]
      eb == exp[b]
  IN  IF ea # NULL /\ eb # NULL THEN ea[1] < eb[1] \/ (ea[1] = eb[1] /\ a > b)
      ELSE IF ea # NULL THEN TRUE
      ELSE IF eb # NULL THEN FALSE
      ELSE a > b

\* FIFO Allocator: positive quantity, earliest expiration, undated last,
\* lowest batch identity on ties; exp gives each batch's expiration date
BeforeBy(exp, a, b) ==
  LET ea == exp[a]
      eb == exp[b]
  IN  IF ea # NULL /\ eb # NULL THEN ea[1] < eb[1] \/ (ea[1] = eb[1] /\ a < b)
      ELSE IF ea # NULL THEN TRUE
      ELSE IF eb # NULL THEN FALSE
      ELSE a < b

Positive(st) == {b \in DOMAIN st : st[b] > 0}

FifoBy(exp, st) == IF Positive(st) = {} THEN NULL
                   ELSE Some(CHOOSE b \in Positive(st) :
                               \A o \in Positive(st) \ {b} : BeforeBy(exp, b, o))

Before(a, b) == BeforeBy([x \in Batches |-> ExpirationDate(x)], a, b)

Available(st) == Positive(st)

FifoOf(st) == FifoBy([x \in Batches |-> ExpirationDate(x)], st)

\* ------------------------------------------------------------------- Init
InitStocks == {[b \in Batches |-> IF b = 1 THEN q1 ELSE q2] :
                 q1 \in {0, 1}, q2 \in {0, 1}}

\* the state when the order screens of the clients in open are mounted
InitScreens(open) ==
  /\ stock \in InitStocks
  /\ stock0 = stock
  /\ log = <<>>
  /\ origin = <<>>
  /\ cadence = [replenishment_frequency |-> 1, last_replenishment_date |-> NULL]
  /\ saleLines = [b \in Batches |-> 0]
  /\ sessionUser \in {NULL} \cup {Some(u) : u \in Users}
  /\ today = 1
  /\ value = [c \in Clients |-> 0]
  /\ overrideQuantity = [c \in Clients |-> String(0)]
  /\ modalVisible = [c \in Clients |-> FALSE]
  /\ reason = [c \in Clients |-> ""]
  /\ priority = [c \in Clients |-> "High"]
  /\ notes = [c \in Clients |-> ""]
  /\ currentUser = [c \in Clients |-> NULL]
  /\ loadingUser = [c \in Clients |-> TRUE]
  /\ fifoBatch = [c \in Clients |-> NULL]
  /\ selectedBatchId = [c \in Clients |-> NULL]
  /\ orderConfirmation = [c \in Clients |-> NULL]
  /\ alert = [c \in Clients |-> "none"]
  /\ userPc = [c \in Clients |-> IF c \in open THEN "get" ELSE "off"]
  /\ fifoPc = [c \in Clients |-> IF c \in open THEN "pending" ELSE "off"]
  /\ inflight = [c \in Clients |-> <<>>]
  /\ predictions = [id \in Cards |-> SuggestedQuantity[id]]
  /\ isEditing = [id \in Cards |-> FALSE]
  /\ overrideValue = [id \in Cards |-> String(SuggestedQuantity[id])]

InitOrder == InitScreens(OpenScreens)

\* the allocator's ledger: the batches of one product, nothing asked yet
AllocBatches == {1, 2, 3}

InitAlloc ==
  /\ ledger = [b \in AllocBatches |-> 0]
  /\ expiry = [b \in AllocBatches |-> NULL]
  /\ fifoResult = [asked |-> FALSE, batch |-> NULL]

\* the stock overview: the first seeded row, nothing computed or shown yet
InitStock ==
  /\ stockRow = [quantity |-> 5, reorder_level |-> 10]
  /\ classified = NULL
  /\ item = [status |-> "Low", expiring |-> FALSE]
  /\ shownPriority = NULL

\* Settings: useState(2); no frequency request made yet
InitSettings ==
  /\ replenishmentFreq = 2
  /\ frequencyRequest = NULL

\* the rows init_db.sql inserts
SeededStock ==
  <<[store_id |-> 1, batch_id |-> 1, quantity |-> 5, reorder_level |-> 10],
    [store_id |-> 1, batch_id |-> 2, quantity |-> 500, reorder_level |-> 20],
    [store_id |-> 1, batch_id |-> 3, quantity |-> 50, reorder_level |-> 20],
    [store_id |-> 1, batch_id |-> 4, quantity |-> 100, reorder_level |-> 30],
    [store_id |-> 1, batch_id |-> 5, quantity |-> 15, reorder_level |-> 5],
    [store_id |-> 2, batch_id |-> 1, quantity |-> 20, reorder_level |-> 10],
    [store_id |-> 2, batch_id |-> 3, quantity |-> 10, reorder_level |-> 10]>>

SeededFrequencies ==
  <<[product_id |-> 1, store_id |-> 1, replenishment_frequency |-> 1],
    [product_id |-> 2, store_id |-> 1, replenishment_frequency |-> 2],
    [product_id |-> 5, store_id |-> 1, replenishment_frequency |-> 3],
    [product_id |-> 1, store_id |-> 2, replenishment_frequency |-> 2],
    [product_id |-> 3, store_id |-> 2, replenishment_frequency |-> 1]>>

InitSchema ==
  /\ hasStockRows = SeededStock
  /\ frequencyRows = SeededFrequencies
  /\ statement = NULL

\* Stock: the modal is closed, no history loaded, no request made
InitModal ==
  /\ historyModal = FALSE
  /\ history = <<>>
  /\ historyLoading = FALSE
  /\ historyCalls = <<>>
  /\ requested = NULL

\* Stock: the list is empty and loading; the product is the first seeded
\* one, which has no sales
InitList ==
  /\ forecastInput = [total_quantity |-> 5, average_daily_sales |-> 0]
  /\ overviewJson = NULL
  /\ stockData = <<>>
  /\ stockError = NULL
  /\ stockLoading = TRUE
  /\ daysText = NULL

\* the metric keys asked for, and the help texts the backend holds
HelpKeys == {"days_to_out_of_stock", "detail"}

Help == [k \in {"days_to_out_of_stock"} |-> "Days until the stock runs out"]

\* new HelpService(): both caches empty, nothing requested
InitHelp ==
  /\ cache = [k \in HelpKeys |-> NULL]
  /\ allHelpCache = NULL
  /\ helpCalls = <<>>
  /\ helpResult = NULL

InitPanels ==
  /\ InitAlloc /\ InitStock /\ InitSettings /\ InitSchema /\ InitModal /\ InitList
  /\ InitHelp

Init == InitOrder /\ InitPanels

\* ------------------------------------------------- order screen: bootstrap
UserRecord(u) == [user_id |-> u, role_id |-> RoleOf(u)]

\* GET /session/user answered: the session user, or a non-OK response
FetchUserGet(c) ==
  /\ userPc[c] = "get"
  /\ IF sessionUser # NULL
       THEN /\ currentUser' = [currentUser EXCEPT ![c] = Some(UserRecord(sessionUser[1]))]
            /\ loadingUser' = [loadingUser EXCEPT ![c] = FALSE]
            /\ userPc' = [userPc EXCEPT ![c] = "done"]
       ELSE /\ userPc' = [userPc EXCEPT ![c] = "post"]
            /\ UNCHANGED <<currentUser, loadingUser>>
  /\ UNCHANGED <<serverVars, value, formVars, fifoVars, orderConfirmation,
                 alert, inflight, histVars,
                 otherScreens>>

\* the fallback POST /session/user {user_id: 2} answered
FetchUserPost(c) ==
  /\ userPc[c] = "post"
  /\ sessionUser' = Some(DEFAULT_MANAGER_ID)
  /\ currentUser' = [currentUser EXCEPT ![c] = Some(UserRecord(DEFAULT_MANAGER_ID))]
  /\ loadingUser' = [loadingUser EXCEPT ![c] = FALSE]
  /\ userPc' = [userPc EXCEPT ![c] = "done"]
  /\ UNCHANGED <<stock, log, cadence, saleLines, today, value, formVars,
                 fifoVars, orderConfirmation, alert, inflight, histVars,
                 otherScreens>>

\* GET /session/user answered non-OK by a backend that holds a session
FetchUserGetNotOk(c) ==
  /\ userPc[c] = "get"
  /\ sessionUser # NULL
  /\ userPc' = [userPc EXCEPT ![c] = "post"]
  /\ UNCHANGED <<serverVars, value, formVars, currentUser, loadingUser, fifoVars,
                 orderConfirmation, alert, inflight, histVars, otherScreens>>

\* either fetch throws: catch logs, finally clears loadingUser
FetchUserFail(c) ==
  /\ userPc[c] \in {"get", "post"}
  /\ loadingUser' = [loadingUser EXCEPT ![c] = FALSE]
  /\ userPc' = [userPc EXCEPT ![c] = "done"]
  /\ UNCHANGED <<serverVars, value, formVars, currentUser, fifoVars,
                 orderConfirmation, alert, inflight, histVars,
                 otherScreens>>

\* GET /replenishment/{store}/{product}: the FIFO batch of the ledger
FifoResponse(st) ==
  LET b == FifoOf(st)[1]
  IN  [batch_id |-> b, quantity |-> st[b], expiration_date |-> ExpirationDate(b)]

FetchFifoOk(c) ==
  /\ fifoPc[c] = "pending"
  /\ FifoOf(stock) # NULL
  /\ LET data == FifoResponse(stock)
     IN  /\ fifoBatch' = [fifoBatch EXCEPT ![c] = Some(data)]
         /\ selectedBatchId' = [selectedBatchId EXCEPT ![c] = Some(data.batch_id)]
         /\ value' = [value EXCEPT ![c] = data.quantity]
         /\ overrideQuantity' = [overrideQuantity EXCEPT ![c] = String(data.quantity)]
  /\ fifoPc' = [fifoPc EXCEPT ![c] = "done"]
  /\ UNCHANGED <<serverVars, modalVisible, reason, priority, notes, userVars,
                 orderConfirmation, alert, inflight, histVars,
                 otherScreens>>

\* no batch available (non-OK) or the fetch throws
FetchFifoFail(c) ==
  /\ fifoPc[c] = "pending"
  /\ alert' = [alert EXCEPT ![c] = "Error"]
  /\ fifoPc' = [fifoPc EXCEPT ![c] = "done"]
  /\ UNCHANGED <<serverVars, value, formVars, userVars, fifoBatch,
                 selectedBatchId, orderConfirmation, inflight, histVars,
                 otherScreens>>

\* ------------------------------------------------ order screen: the form
Minus(c) ==
  /\ Mounted(c)
  /\ ~modalVisible[c]
  /\ value' = [value EXCEPT ![c] = Max(0, OrElse(Some(@), 0) - 1)]
  /\ UNCHANGED <<serverVars, formVars, userVars, fifoVars, orderConfirmation,
                 alert, inflight, histVars,
                 otherScreens>>

Plus(c) ==
  /\ Mounted(c)
  /\ ~modalVisible[c]
  /\ value[c] < MaxQty
  /\ value' = [value EXCEPT ![c] = OrElse(Some(@), 0) + 1]
  /\ UNCHANGED <<serverVars, formVars, userVars, fifoVars, orderConfirmation,
                 alert, inflight, histVars,
                 otherScreens>>

\* the button is rendered for a resolved Manager only
OverrideButtonShown(c) == ~loadingUser[c] /\ IsManager(c)

\* as openOverrideModal, with the button rendered for everyone and no test
\* of the role
openOverrideModalAnyRole(c) ==
  /\ ~modalVisible[c]
  /\ Mounted(c)
  /\ overrideQuantity' = [overrideQuantity EXCEPT ![c] = String(OrElse(Some(value[c]), 0))]
  /\ reason' = [reason EXCEPT ![c] = ""]
  /\ priority' = [priority EXCEPT ![c] = "High"]
  /\ notes' = [notes EXCEPT ![c] = ""]
  /\ modalVisible' = [modalVisible EXCEPT ![c] = TRUE]
  /\ UNCHANGED <<serverVars, value, userVars, fifoVars, orderConfirmation,
                 alert, inflight, histVars,
                 otherScreens>>

openOverrideModal(c) ==
  /\ ~modalVisible[c]
  /\ OverrideButtonShown(c)
  /\ IF ~IsManager(c)
       THEN UNCHANGED formVars
       ELSE /\ overrideQuantity' = [overrideQuantity EXCEPT ![c] = String(OrElse(Some(value[c]), 0))]
            /\ reason' = [reason EXCEPT ![c] = ""]
            /\ priority' = [priority EXCEPT ![c] = "High"]
            /\ notes' = [notes EXCEPT ![c] = ""]
            /\ modalVisible' = [modalVisible EXCEPT ![c] = TRUE]
  /\ UNCHANGED <<serverVars, value, userVars, fifoVars, orderConfirmation,
                 alert, inflight, histVars,
                 otherScreens>>

TypeOverrideQuantity(c, t) ==
  /\ modalVisible[c]
  /\ overrideQuantity' = [overrideQuantity EXCEPT ![c] = t]
  /\ UNCHANGED <<serverVars, value, modalVisible, reason, priority, notes,
                 userVars, fifoVars, orderConfirmation, alert, inflight, histVars,
                 otherScreens>>

\* the Reason field, the priority Picker and the Notes field are filled in
FillOverrideForm(c, f) ==
  /\ modalVisible[c]
  /\ reason' = [reason EXCEPT ![c] = f.reason]
  /\ priority' = [priority EXCEPT ![c] = f.priority]
  /\ notes' = [notes EXCEPT ![c] = f.notes]
  /\ UNCHANGED <<serverVars, value, overrideQuantity, modalVisible, userVars,
                 fifoVars, orderConfirmation, alert, inflight, histVars,
                 otherScreens>>

CancelModal(c) ==
  /\ modalVisible[c]
  /\ modalVisible' = [modalVisible EXCEPT ![c] = FALSE]
  /\ UNCHANGED <<serverVars, value, overrideQuantity, reason, priority, notes,
                 userVars, fifoVars, orderConfirmation, alert, inflight, histVars,
                 otherScreens>>

\* ------------------------------------------- order screen: commit requests
\* the PATCH .../replenish request as sent; closure is what the handler
\* still holds when the response arrives
CommitRequest(kind, c, qty, uid, form) ==
  [kind |-> kind,
   body |-> [batch_id |-> selectedBatchId[c][1],
             quantity |-> qty,
             user_id |-> uid,
             expiration_date |-> fifoBatch[c][1].expiration_date,
             replenishment_date |-> today],
   closure |-> [fifoBatch |-> fifoBatch[c][1], qty |-> qty, form |-> form,
                role |-> RoleId(c)]]

NoForm == NULL

FormOf(c) == Some([reason |-> reason[c], priority |-> priority[c], notes |-> notes[c]])

Send(c, req) ==
  /\ Len(inflight[c]) < MaxPending
  /\ inflight' = [inflight EXCEPT ![c] = Append(@, req)]

\* as placeOrder, but ordering batch 1 when no batch is held
placeOrderDefaultBatch(c) ==
  /\ Mounted(c)
  /\ ~modalVisible[c]
  /\ IF selectedBatchId[c] = NULL \/ fifoBatch[c] = NULL
       THEN /\ Send(c, [kind |-> "place",
                         body |-> [batch_id |-> 1, quantity |-> value[c],
                                   user_id |-> Some(DEFAULT_USER_ID),
                                   expiration_date |-> NULL,
                                   replenishment_date |-> today],
                         closure |-> [fifoBatch |-> [batch_id |-> 1, quantity |-> 0,
                                                     expiration_date |-> NULL],
                                      qty |-> value[c], form |-> NoForm,
                                      role |-> RoleId(c)]])
            /\ UNCHANGED alert
       ELSE LET isFifoViolation == value[c] > fifoBatch[c][1].quantity
            IN  IF isFifoViolation /\ RoleId(c) # Some(MANAGER_ROLE)
                  THEN /\ alert' = [alert EXCEPT ![c] = "FIFO Violation"]
                       /\ UNCHANGED inflight
                  ELSE /\ alert' = IF isFifoViolation /\ RoleId(c) = Some(MANAGER_ROLE)
                                     THEN [alert EXCEPT ![c] = "FIFO Alert"]
                                     ELSE alert
                       /\ Send(c, CommitRequest("place", c, value[c],
                                    Some(IF UserId(c) = NULL THEN DEFAULT_USER_ID
                                         ELSE UserId(c)[1]),
                                    NoForm))
  /\ UNCHANGED <<serverVars, value, formVars, userVars, fifoVars,
                 orderConfirmation, histVars, otherScreens>>

\* as placeOrder, but only a resolved Employee is refused
placeOrderEmployeeOnly(c) ==
  /\ Mounted(c)
  /\ ~modalVisible[c]
  /\ IF selectedBatchId[c] = NULL \/ fifoBatch[c] = NULL
       THEN /\ alert' = [alert EXCEPT ![c] = "Error"]
            /\ UNCHANGED inflight
       ELSE LET isFifoViolation == value[c] > fifoBatch[c][1].quantity
            IN  IF isFifoViolation /\ RoleId(c) = Some(1)
                  THEN /\ alert' = [alert EXCEPT ![c] = "FIFO Violation"]
                       /\ UNCHANGED inflight
                  ELSE /\ alert' = IF isFifoViolation /\ RoleId(c) = Some(MANAGER_ROLE)
                                     THEN [alert EXCEPT ![c] = "FIFO Alert"]
                                     ELSE alert
                       /\ Send(c, CommitRequest("place", c, value[c],
                                    Some(IF UserId(c) = NULL THEN DEFAULT_USER_ID
                                         ELSE UserId(c)[1]),
                                    NoForm))
  /\ UNCHANGED <<serverVars, value, formVars, userVars, fifoVars,
                 orderConfirmation, histVars, otherScreens>>

placeOrder(c) ==
  /\ Mounted(c)
  /\ ~modalVisible[c]
  /\ IF selectedBatchId[c] = NULL \/ fifoBatch[c] = NULL
       THEN /\ alert' = [alert EXCEPT ![c] = "Error"]
            /\ UNCHANGED inflight
       ELSE LET isFifoViolation == value[c] > fifoBatch[c][1].quantity
            IN  IF isFifoViolation /\ RoleId(c) # Some(MANAGER_ROLE)
                  THEN /\ alert' = [alert EXCEPT ![c] = "FIFO Violation"]
                       /\ UNCHANGED inflight
                  ELSE /\ alert' = IF isFifoViolation /\ RoleId(c) = Some(MANAGER_ROLE)
                                     THEN [alert EXCEPT ![c] = "FIFO Alert"]
                                     ELSE alert
                       /\ Send(c, CommitRequest("place", c, value[c],
                                    Some(IF UserId(c) = NULL THEN DEFAULT_USER_ID
                                         ELSE UserId(c)[1]),
                                    NoForm))
  /\ UNCHANGED <<serverVars, value, formVars, userVars, fifoVars,
                 orderConfirmation, histVars,
                 otherScreens>>

submitOverride(c) ==
  /\ modalVisible[c]
  /\ IF selectedBatchId[c] = NULL \/ fifoBatch[c] = NULL
       THEN /\ alert' = [alert EXCEPT ![c] = "Error"]
            /\ UNCHANGED inflight
       ELSE LET qty == OrElse(Number(overrideQuantity[c]), 0)
                over == qty > fifoBatch[c][1].quantity
            IN  IF over /\ RoleId(c) # Some(MANAGER_ROLE)
                  THEN /\ alert' = [alert EXCEPT ![c] = "FIFO Violation"]
                       /\ UNCHANGED inflight
                  ELSE /\ alert' = IF over /\ RoleId(c) = Some(MANAGER_ROLE)
                                     THEN [alert EXCEPT ![c] = "FIFO Alert"]
                                     ELSE alert
                       /\ Send(c, CommitRequest("override", c, qty, UserId(c),
                                                FormOf(c)))
  /\ UNCHANGED <<serverVars, value, formVars, userVars, fifoVars,
                 orderConfirmation, histVars,
                 otherScreens>>

\* ----------------------------------------------------------- persistence
\* a REPLENISHMENT_LOG row; expiration_date, quantity and user_id are
\* NOT NULL, and the table has no other column
LogRow(body) ==
  [product_id |-> PRODUCT_ID, store_id |-> STORE_ID, batch_id |-> body.batch_id,
   expiration_date |-> body.expiration_date, quantity |-> body.quantity,
   user_id |-> body.user_id, timestamp |-> today]

LogRowAccepted(row) == row.expiration_date # NULL /\ row.user_id # NULL

\* the commit requests for the same stock row that are in flight while the
\* request in slot i of client c is committed
Concurrent(c, i) ==
  Cardinality({j \in 1..Len(inflight[c]) :
                 j # i /\ inflight[c][j].body.batch_id = inflight[c][i].body.batch_id})

\* as StockAfter, but writing from the quantity read before the sales and
\* commits of others
StockAfterStale(st, body) ==
  [st EXCEPT ![body.batch_id] = stock0[body.batch_id] + body.quantity]

StockAfter(st, body) == [st EXCEPT ![body.batch_id] = @ + body.quantity]

\* as LogAfter, but writing over the last entry
LogAfterRewrite(lg, body) ==
  IF lg = <<>> THEN <<LogRow(body)>> ELSE [lg EXCEPT ![Len(lg)] = LogRow(body)]

LogAfter(lg, body) == Append(lg, LogRow(body))

\* as CadenceAfter, with the day the request is processed
CadenceAfterToday(cd, body) ==
  [cd EXCEPT !.last_replenishment_date = Some(today)]

CadenceAfter(cd, body) ==
  [cd EXCEPT !.last_replenishment_date = Some(body.replenishment_date)]

\* commit(product, store, batch, quantity, actor, expiration_date, date):
\* one transaction that changes the stock row, appends the log row and sets
\* the cadence row's last_replenishment_date
\* as commit, without the log row
commitNoLog(body) ==
  /\ stock' = StockAfter(stock, body)
  /\ log' = log
  /\ cadence' = CadenceAfter(cadence, body)

\* as commit, but a request equal to a logged one is acknowledged and dropped
commitDedup(body) ==
  IF \E k \in 1..Len(log) : log[k] = LogRow(body)
    THEN UNCHANGED <<stock, log, cadence>>
    ELSE /\ stock' = StockAfter(stock, body)
         /\ log' = LogAfter(log, body)
         /\ cadence' = CadenceAfter(cadence, body)

commit(body) ==
  /\ stock' = StockAfter(stock, body)
  /\ log' = LogAfter(log, body)
  /\ cadence' = CadenceAfter(cadence, body)

\* the response body of a commit
CommitData(cd, body) ==
  [replenishment_frequency |-> cd.replenishment_frequency,
   last_replenishment_date |-> Some(body.replenishment_date)]

\* ------------------------------------------ order screen: commit responses
Confirmation(req, data) ==
  [batch_id |-> req.closure.fifoBatch.batch_id,
   quantity_ordered |-> req.closure.qty,
   expiration_date |-> req.closure.fifoBatch.expiration_date,
   priority |-> IF req.kind = "place" THEN "High" ELSE req.closure.form[1].priority,
   replenishment_frequency |-> data.replenishment_frequency,
   last_replenishment_date |-> data.last_replenishment_date,
   notes |-> IF req.kind = "place" THEN NULL ELSE Some(req.closure.form[1].notes),
   reason |-> IF req.kind = "place" THEN NULL ELSE Some(req.closure.form[1].reason)]

\* the rest of the handler after res.ok: the confirmation is recorded; an
\* override also sets the quantity and closes the form
OnCommitOk(c, req, data) ==
  /\ orderConfirmation' = [orderConfirmation EXCEPT ![c] = Some(Confirmation(req, data))]
  /\ IF req.kind = "override"
       THEN /\ value' = [value EXCEPT ![c] = req.closure.qty]
            /\ modalVisible' = [modalVisible EXCEPT ![c] = FALSE]
       ELSE UNCHANGED <<value, modalVisible>>
  /\ alert' = [alert EXCEPT ![c] = "Success"]

\* as OnCommitError, with the quantity set before the response is looked at
OnCommitErrorSetsValue(c, req) ==
  /\ alert' = [alert EXCEPT ![c] = "Error"]
  /\ value' = [value EXCEPT ![c] = req.closure.qty]
  /\ UNCHANGED <<modalVisible, orderConfirmation>>

\* the catch block after !res.ok or a thrown fetch: an alert, nothing else
OnCommitError(c, req) ==
  /\ alert' = [alert EXCEPT ![c] = "Error"]
  /\ UNCHANGED <<value, modalVisible, orderConfirmation>>

\* a request is answered: the backend commits and the handler resumes
CommitOk(c, i) ==
  LET req == inflight[c][i]
  IN  /\ LogRowAccepted(LogRow(req.body))
      /\ Len(log) < MaxLog
      /\ commit(req.body)
      /\ origin' = Append(origin, Concurrent(c, i))
      /\ OnCommitOk(c, req, CommitData(cadence, req.body))
      /\ inflight' = [inflight EXCEPT ![c] = RemoveAt(@, i)]
      /\ UNCHANGED <<saleLines, sessionUser, today, overrideQuantity, reason,
                     priority, notes, userVars, fifoVars, stock0,
                 otherScreens>>

\* the transaction is rolled back, because the log row violates the schema
\* or because the persistence layer fails, and the response is not OK
CommitNotOk(c, i, transient) ==
  LET req == inflight[c][i]
  IN  /\ transient \/ ~LogRowAccepted(LogRow(req.body))
      /\ OnCommitError(c, req)
      /\ inflight' = [inflight EXCEPT ![c] = RemoveAt(@, i)]
      /\ UNCHANGED <<serverVars, overrideQuantity, reason, priority, notes,
                     userVars, fifoVars, histVars,
                 otherScreens>>

\* the request never reaches the backend: fetch throws
CommitNetworkError(c, i) ==
  LET req == inflight[c][i]
  IN  /\ OnCommitError(c, req)
      /\ inflight' = [inflight EXCEPT ![c] = RemoveAt(@, i)]
      /\ UNCHANGED <<serverVars, overrideQuantity, reason, priority, notes,
                     userVars, fifoVars, histVars,
                 otherScreens>>

\* a sale by another actor draws one unit from a batch
Sale(b) ==
  /\ stock[b] > 0
  /\ saleLines[1] + saleLines[2] < MaxSales
  /\ stock' = [stock EXCEPT ![b] = @ - 1]
  /\ saleLines' = [saleLines EXCEPT ![b] = @ + 1]
  /\ UNCHANGED <<log, cadence, sessionUser, today, value, formVars, userVars,
                 fifoVars, orderConfirmation, alert, inflight, histVars,
                 otherScreens>>

\* ------------------------------------------------------ predictions screen
\* the suggested quantity of a card is pressed
StartEditing(id) ==
  /\ ~isEditing[id]
  /\ isEditing' = [isEditing EXCEPT ![id] = TRUE]
  /\ UNCHANGED <<serverVars, value, formVars, userVars, fifoVars,
                 orderConfirmation, alert, inflight, histVars, predictions,
                 overrideValue, panelVars>>

TypeOverrideValue(id, t) ==
  /\ isEditing[id]
  /\ overrideValue' = [overrideValue EXCEPT ![id] = t]
  /\ UNCHANGED <<serverVars, value, formVars, userVars, fifoVars,
                 orderConfirmation, alert, inflight, histVars, predictions,
                 isEditing, panelVars>>

\* PredictionCard.handleSave and the handleOverride it calls
handleSave(id) ==
  /\ isEditing[id]
  /\ predictions' = [predictions EXCEPT ![id] =
                       OrElse(parseInt(overrideValue[id]), predictions[id])]
  /\ isEditing' = [isEditing EXCEPT ![id] = FALSE]
  /\ UNCHANGED <<serverVars, value, formVars, userVars, fifoVars,
                 orderConfirmation, alert, inflight, histVars, overrideValue, panelVars>>

\* ------------------------------------------------------------------ Next
Slots(c) == 1..Len(inflight[c])

Bootstrap ==
  \/ \E c \in Clients : FetchUserGet(c)
  \/ \E c \in Clients : FetchUserPost(c)
  \/ \E c \in Clients : FetchUserFail(c)
  \/ \E c \in Clients : FetchFifoOk(c)
  \/ \E c \in Clients : FetchFifoFail(c)

Answers ==
  \/ \E c \in Clients : \E i \in Slots(c) : CommitOk(c, i)
  \/ \E c \in Clients : \E i \in Slots(c), t \in BOOLEAN : CommitNotOk(c, i, t)
  \/ \E c \in Clients : \E i \in Slots(c) : CommitNetworkError(c, i)

\* the order screen used with the stepper and Place order, while other
\* actors sell from the same ledger
Next ==
  \/ Bootstrap
  \/ \E c \in Clients : Minus(c)
  \/ \E c \in Clients : Plus(c)
  \/ \E c \in Clients : placeOrder(c)
  \/ Answers
  \/ \E b \in Batches : Sale(b)

Spec == Init /\ [][Next]_vars

\* the order screen used with Place order and the override form
NextOverride ==
  \/ Bootstrap
  \/ \E c \in Clients : placeOrder(c)
  \/ \E c \in Clients : openOverrideModal(c)
  \/ \E c \in Clients, t \in TypedQuantities : TypeOverrideQuantity(c, t)
  \/ \E c \in Clients, f \in TypedForms : FillOverrideForm(c, f)
  \/ \E c \in Clients : CancelModal(c)
  \/ \E c \in Clients : submitOverride(c)
  \/ Answers

SpecOverride == Init /\ [][NextOverride]_vars

\* the override form with a signed number typed into its quantity field
SignedQuantities == {<<"-", "3">>}

NextSigned ==
  \/ Bootstrap
  \/ \E c \in Clients : placeOrder(c)
  \/ \E c \in Clients : openOverrideModal(c)
  \/ \E c \in Clients, t \in SignedQuantities : TypeOverrideQuantity(c, t)
  \/ \E c \in Clients, f \in TypedForms : FillOverrideForm(c, f)
  \/ \E c \in Clients : CancelModal(c)
  \/ \E c \in Clients : submitOverride(c)
  \/ Answers

SpecSigned == Init /\ [][NextSigned]_vars

\* two order screens open on one backend whose session holds the Employee
LoggedIn == DEFAULT_USER_ID

InitShared ==
  /\ InitScreens(Clients)
  /\ InitPanels
  /\ stock = [b \in Batches |-> 1]
  /\ sessionUser = Some(LoggedIn)

NextShared ==
  \/ Bootstrap
  \/ \E c \in Clients : FetchUserGetNotOk(c)
  \/ \E c \in Clients : placeOrder(c)
  \/ Answers

SpecShared == InitShared /\ [][NextShared]_vars

\* the predictions screen, used by whoever the session user is
InitPredictions == Init /\ stock = [b \in Batches |-> 1]

NextPredictions ==
  \/ \E id \in Cards : StartEditing(id)
  \/ \E id \in Cards, t \in TypedOverrideValues : TypeOverrideValue(id, t)
  \/ \E id \in Cards : handleSave(id)

SpecPredictions == InitPredictions /\ [][NextPredictions]_vars

\* ---------------------------------------------------------- FIFO Allocator
\* GET /replenishment/{store}/{product}, asked of the allocator's ledger
Allocate ==
  /\ ~fifoResult.asked
  /\ fifoResult' = [asked |-> TRUE, batch |-> FifoBy(expiry, ledger)]
  /\ UNCHANGED <<coreVars, exceptAlloc, ledger, expiry>>

\* nothing happens on the order screen
InitIdle == InitOrder /\ stock = [b \in Batches |-> 1] /\ sessionUser = NULL

AllocQuantities == {0, 1}
AllocDates == {NULL, Some(1), Some(2)}

\* any ledger of the product's batches, dated or not
InitAllocator ==
  /\ InitIdle
  /\ InitStock
  /\ InitSettings
  /\ InitSchema
  /\ InitModal
  /\ InitList
  /\ InitHelp
  /\ ledger \in [AllocBatches -> AllocQuantities]
  /\ expiry \in [AllocBatches -> AllocDates]
  /\ fifoResult = [asked |-> FALSE, batch |-> NULL]

NextAllocator == Allocate

SpecAllocator == InitAllocator /\ [][NextAllocator]_vars

\* ---------------------------------------------------------- stock overview
OVERSTOCK_FACTOR == 3

\* as Status, with the boundary on the Stable side
StatusBelow(quantity, reorder_level) ==
  IF quantity < reorder_level THEN "Low" ELSE "Stable"

\* Stock Classifier: status and overstock flag of a row
Status(quantity, reorder_level) ==
  IF quantity <= reorder_level THEN "Low" ELSE "Stable"

Overstock(quantity, reorder_level) == quantity > OVERSTOCK_FACTOR * reorder_level

Classify ==
  /\ classified = NULL
  /\ classified' = Some([status |-> Status(stockRow.quantity, stockRow.reorder_level),
                          overstock |-> Overstock(stockRow.quantity, stockRow.reorder_level)])
  /\ UNCHANGED <<coreVars, exceptStock, stockRow, item, shownPriority>>

\* Stock.tsx calculatePriority
calculatePriority(it) ==
  IF it.status = "Critical" THEN "High"
  ELSE IF it.status = "Low" THEN "Medium"
  ELSE "Low"

\* ProductRow renders the item
ProductRow ==
  /\ shownPriority = NULL
  /\ shownPriority' = Some(calculatePriority(item))
  /\ UNCHANGED <<coreVars, exceptStock, stockRow, classified, item>>

\* the rows seeded by init_db.sql as (quantity, reorder_level)
SeededRows ==
  {[quantity |-> 5, reorder_level |-> 10], [quantity |-> 500, reorder_level |-> 20],
   [quantity |-> 50, reorder_level |-> 20], [quantity |-> 100, reorder_level |-> 30],
   [quantity |-> 15, reorder_level |-> 5], [quantity |-> 20, reorder_level |-> 10],
   [quantity |-> 10, reorder_level |-> 10]}

SmallRows == {[quantity |-> q, reorder_level |-> r] : q \in 0..6, r \in 0..2}

StockStatuses == {"Stable", "Low", "Critical"}

InitOverview ==
  /\ InitIdle
  /\ InitAlloc
  /\ InitSettings
  /\ InitSchema
  /\ InitModal
  /\ InitList
  /\ InitHelp
  /\ stockRow \in SeededRows \cup SmallRows
  /\ classified = NULL
  /\ item \in [status : StockStatuses, expiring : BOOLEAN]
  /\ shownPriority = NULL

NextOverview ==
  \/ Classify
  \/ ProductRow

SpecOverview == InitOverview /\ [][NextOverview]_vars

\* ------------------------------------------------- replenishment cadence
\* the calendar moves on
NextDay ==
  /\ today < MaxDay
  /\ today' = today + 1
  /\ UNCHANGED <<stock, log, cadence, saleLines, sessionUser, orderVars,
                 histVars, otherScreens>>

\* Cadence Tracker: the day the next replenishment is due; NULL stands for
\* "due immediately"
NextDue(cd) ==
  IF cd.last_replenishment_date = NULL THEN NULL
  ELSE Some(cd.last_replenishment_date[1] + cd.replenishment_frequency)

\* as FrequencyCheck, without the lower limit
FrequencyCheckUpper(f) == f <= 3

\* CHECK (replenishment_frequency >= 1 AND replenishment_frequency <= 3)
FrequencyCheck(f) == f >= 1 /\ f <= 3

FrequencyInputs == 0..4

\* a request to set the frequency of the cadence row: the row is written
\* when the CHECK passes, else the request fails with InvalidCadence
setFrequency(f) ==
  /\ IF FrequencyCheck(f)
       THEN /\ cadence' = [cadence EXCEPT !.replenishment_frequency = f]
            /\ frequencyRequest' = Some([frequency |-> f, result |-> "ok"])
       ELSE /\ cadence' = cadence
            /\ frequencyRequest' = Some([frequency |-> f, result |-> "InvalidCadence"])
  /\ UNCHANGED <<stock, log, saleLines, sessionUser, today, orderVars, histVars,
                 predictions, isEditing, overrideValue, exceptSettings,
                 replenishmentFreq>>

\* the frequency buttons of the Settings screen
FrequencyButtons == {1, 2, 3}

\* Settings.handleFrequencyChange, from the button of freq
handleFrequencyChange(freq) ==
  /\ replenishmentFreq' = freq
  /\ UNCHANGED <<coreVars, exceptSettings, frequencyRequest>>

\* one Employee orders what the FIFO batch holds, day after day, while the
\* frequency is configured
InitCadence ==
  /\ Init
  /\ stock = [b \in Batches |-> 1]
  /\ sessionUser \in {NULL, Some(DEFAULT_USER_ID)}

NextCadence ==
  \/ Bootstrap
  \/ \E c \in Clients : placeOrder(c)
  \/ Answers
  \/ NextDay
  \/ \E f \in FrequencyInputs : setFrequency(f)
  \/ \E freq \in FrequencyButtons : handleFrequencyChange(freq)

SpecCadence == InitCadence /\ [][NextCadence]_vars

\* ------------------------------------------------------ tables and keys
SchemaStores == {1, 2}
SchemaBatches == {1, 2}
SchemaProducts == {1, 2}
InsertQuantities == {0, 20}
DEFAULT_REORDER_LEVEL == 10

\* INSERT INTO HAS_STOCK (store_id, batch_id, quantity): stock_id is the
\* only key of the table, so the row is added whatever rows exist
InsertHasStock(s, b, q) ==
  LET new == [store_id |-> s, batch_id |-> b, quantity |-> q,
              reorder_level |-> DEFAULT_REORDER_LEVEL]
  IN  /\ Len(hasStockRows) < Len(SeededStock) + MaxInserts
      /\ hasStockRows' = Append(hasStockRows, new)
      /\ statement' = Some([table |-> "HAS_STOCK", error |-> "none"])
      /\ UNCHANGED <<coreVars, exceptSchema, frequencyRows>>

\* as DuplicateKey, comparing whole rows
DuplicateRow(rows, new) == \E i \in DOMAIN rows : rows[i] = new

\* UNIQUE KEY uq_product_store (product_id, store_id)
DuplicateKey(rows, new) ==
  \E i \in DOMAIN rows :
    rows[i].product_id = new.product_id /\ rows[i].store_id = new.store_id

\* INSERT INTO REPLENISHMENT_FREQUENCY (product_id, store_id,
\* replenishment_frequency): refused on a duplicate key or a failed CHECK
InsertFrequency(p, s, f) ==
  LET new == [product_id |-> p, store_id |-> s, replenishment_frequency |-> f]
  IN  /\ IF DuplicateKey(frequencyRows, new)
           THEN /\ frequencyRows' = frequencyRows
                /\ statement' = Some([table |-> "REPLENISHMENT_FREQUENCY",
                                      error |-> "Duplicate entry"])
           ELSE IF ~FrequencyCheck(f)
           THEN /\ frequencyRows' = frequencyRows
                /\ statement' = Some([table |-> "REPLENISHMENT_FREQUENCY",
                                      error |-> "Check constraint"])
           ELSE /\ frequencyRows' = Append(frequencyRows, new)
                /\ statement' = Some([table |-> "REPLENISHMENT_FREQUENCY",
                                      error |-> "none"])
      /\ UNCHANGED <<coreVars, exceptSchema, hasStockRows>>

InitTables == InitIdle /\ InitPanels

NextSchema ==
  \/ \E s \in SchemaStores, b \in SchemaBatches, q \in InsertQuantities :
       InsertHasStock(s, b, q)
  \/ \E p \in SchemaProducts, s \in SchemaStores, f \in FrequencyInputs :
       InsertFrequency(p, s, f)

SpecSchema == InitTables /\ [][NextSchema]_vars

\* ------------------------------------------- stock screen: history modal
HistoryProducts == {1, 2}

Reverse(s) == [i \in 1..Len(s) |-> s[Len(s) + 1 - i]]

\* GET /replenishment-logs/{store}/{product}: the log entries of the pair,
\* most recent first
HistoryRows(lg, p) ==
  Reverse(SelectSeq(lg, LAMBDA h : h.store_id = STORE_ID /\ h.product_id = p))

\* json.map((h) => ({date, batch, expiration, quantity, user}))
HistoryItem(h) ==
  [date |-> h.timestamp,
   batch |-> <<"B", "a", "t", "c", "h", " ">> \o String(h.batch_id),
   expiration |-> h.expiration_date,
   quantity |-> h.quantity,
   user |-> <<"U", "s", "e", "r", " ">> \o String(h.user_id[1])]

\* as Mapped, but listing the rows from the last to the first
MappedBackwards(rows) == [i \in 1..Len(rows) |-> HistoryItem(rows[Len(rows) + 1 - i])]

Mapped(rows) == [i \in 1..Len(rows) |-> HistoryItem(rows[i])]

\* Stock.viewHistory up to its fetch: the modal opens over the list
viewHistory(productId) ==
  /\ ~historyModal
  /\ Len(historyCalls) < MaxHistoryCalls
  /\ historyModal' = TRUE
  /\ historyLoading' = TRUE
  /\ historyCalls' = Append(historyCalls, productId)
  /\ requested' = Some(productId)
  /\ UNCHANGED <<coreVars, exceptModal, history>>

\* the request is answered with the rows of the log
HistoryOk(i) ==
  /\ i \in 1..Len(historyCalls)
  /\ history' = Mapped(HistoryRows(log, historyCalls[i]))
  /\ historyLoading' = FALSE
  /\ historyCalls' = RemoveAt(historyCalls, i)
  /\ UNCHANGED <<coreVars, exceptModal, historyModal, requested>>

\* the request fails or is answered non-OK: catch, then finally
HistoryFail(i) ==
  /\ i \in 1..Len(historyCalls)
  /\ history' = <<>>
  /\ historyLoading' = FALSE
  /\ historyCalls' = RemoveAt(historyCalls, i)
  /\ UNCHANGED <<coreVars, exceptModal, historyModal, requested>>

\* the Close button of the modal
CloseHistory ==
  /\ historyModal
  /\ historyModal' = FALSE
  /\ UNCHANGED <<coreVars, exceptModal, history, historyLoading, historyCalls,
                 requested>>

\* a manager by fallback commits from the order screen, with and without
\* the override form, while the stock screen queries the history
HistoryQuantities == {<<"3">>}

InitHistory ==
  /\ Init
  /\ stock = [b \in Batches |-> 1]
  /\ sessionUser = NULL

NextHistory ==
  \/ Bootstrap
  \/ \E c \in Clients : placeOrder(c)
  \/ \E c \in Clients : openOverrideModal(c)
  \/ \E c \in Clients, t \in HistoryQuantities : TypeOverrideQuantity(c, t)
  \/ \E c \in Clients : CancelModal(c)
  \/ \E c \in Clients : submitOverride(c)
  \/ Answers
  \/ \E productId \in HistoryProducts : viewHistory(productId)
  \/ \E i \in 1..MaxHistoryCalls : HistoryOk(i)
  \/ \E i \in 1..MaxHistoryCalls : HistoryFail(i)
  \/ CloseHistory

SpecHistory == InitHistory /\ [][NextHistory]_vars

\* --------------------------------------------- stock screen: the overview
\* Demand Forecaster: current_total_quantity / average_daily_sales, null
\* when average_daily_sales is 0
DaysToOutOfStock(total_quantity, average_daily_sales) ==
  IF average_daily_sales = 0 THEN NULL
  ELSE Some(total_quantity \div average_daily_sales)

\* GET /stock/overview/{store}: the item of the product
OverviewItem(in) ==
  [total_quantity |-> in.total_quantity,
   average_daily_sales |-> Some(in.average_daily_sales),
   days_to_out_of_stock |->
     DaysToOutOfStock(in.total_quantity, in.average_daily_sales)]

Overview ==
  /\ overviewJson = NULL
  /\ overviewJson' = Some(OverviewItem(forecastInput))
  /\ UNCHANGED <<coreVars, exceptList, forecastInput, stockData, stockError,
                 stockLoading, daysText>>

\* x ?? y
Coalesce(x, y) == IF x = NULL THEN y ELSE x[1]

\* as MapOverview, with days_to_out_of_stock defaulted like the sales
MapOverviewDefaulted(p) ==
  [p EXCEPT !.average_daily_sales = Some(Coalesce(p.average_daily_sales, 0)),
            !.days_to_out_of_stock = Some(Coalesce(p.days_to_out_of_stock, 0))]

\* json.map((p) => ({...p, average_daily_sales: p.average_daily_sales ?? 0, ...}))
MapOverview(p) ==
  [p EXCEPT !.average_daily_sales = Some(Coalesce(p.average_daily_sales, 0))]

\* Stock.load, response OK: the list is mapped and stored
StockLoadOk ==
  /\ stockLoading
  /\ overviewJson # NULL
  /\ stockData' = <<MapOverview(overviewJson[1])>>
  /\ stockLoading' = FALSE
  /\ UNCHANGED <<coreVars, exceptList, forecastInput, overviewJson, stockError,
                 daysText>>

\* Stock.load, response not OK or fetch throws
StockLoadFail ==
  /\ stockLoading
  /\ stockError' = Some("Failed to load stock")
  /\ stockLoading' = FALSE
  /\ UNCHANGED <<coreVars, exceptList, forecastInput, overviewJson, stockData,
                 daysText>>

\* the one-character string of an em dash (U+2014)
EmDash == <<"em dash">>

\* {item.days_to_out_of_stock ?? EmDash}
DaysShown(it) ==
  IF it.days_to_out_of_stock = NULL THEN EmDash
  ELSE String(it.days_to_out_of_stock[1])

\* ProductRow renders the first line of the item's details
ProductRowDays ==
  /\ stockData # <<>>
  /\ daysText = NULL
  /\ daysText' = Some(DaysShown(stockData[1]))
  /\ UNCHANGED <<coreVars, exceptList, forecastInput, overviewJson, stockData,
                 stockError, stockLoading>>

\* products by total quantity and average daily sales, the days being whole
ForecastQuantities == 0..8

ForecastSales == 0..3

ForecastInputs ==
  {in \in [total_quantity : ForecastQuantities, average_daily_sales : ForecastSales] :
     in.average_daily_sales = 0 \/ in.total_quantity % in.average_daily_sales = 0}

InitForecast ==
  /\ InitIdle
  /\ InitAlloc /\ InitStock /\ InitSettings /\ InitSchema /\ InitModal /\ InitHelp
  /\ forecastInput \in ForecastInputs
  /\ overviewJson = NULL
  /\ stockData = <<>>
  /\ stockError = NULL
  /\ stockLoading = TRUE
  /\ daysText = NULL

NextForecast ==
  \/ Overview
  \/ StockLoadOk
  \/ StockLoadFail
  \/ ProductRowDays

SpecForecast == InitForecast /\ [][NextForecast]_vars

\* ------------------------------------------------------------ help service
\* the body of a non-OK answer
ErrorBody == [k \in {"detail"} |-> "Not Found"]

\* HelpService.getHelp up to its fetch: a cached key returns at once
getHelp(metricKey) ==
  /\ IF cache[metricKey] # NULL
       THEN /\ helpResult' = Some([key |-> metricKey, data |-> cache[metricKey],
                                   fetched |-> FALSE])
            /\ UNCHANGED helpCalls
       ELSE /\ Len(helpCalls) < MaxHelpCalls
            /\ helpCalls' = Append(helpCalls, [op |-> "getHelp", key |-> metricKey])
            /\ UNCHANGED helpResult
  /\ UNCHANGED <<coreVars, exceptHelp, cache, allHelpCache>>

\* GET /help/{key} answered OK: the data is cached and returned
GetHelpOk(i) ==
  /\ i \in 1..Len(helpCalls)
  /\ helpCalls[i].op = "getHelp"
  /\ helpCalls[i].key \in DOMAIN Help
  /\ LET k == helpCalls[i].key
     IN  /\ cache' = [cache EXCEPT ![k] = Some(Help[k])]
         /\ helpResult' = Some([key |-> k, data |-> Some(Help[k]), fetched |-> TRUE])
  /\ helpCalls' = RemoveAt(helpCalls, i)
  /\ UNCHANGED <<coreVars, exceptHelp, allHelpCache>>

\* GET /help/{key} answered non-OK, or the fetch throws: null is returned
GetHelpFail(i) ==
  /\ i \in 1..Len(helpCalls)
  /\ helpCalls[i].op = "getHelp"
  /\ helpResult' = Some([key |-> helpCalls[i].key, data |-> NULL, fetched |-> TRUE])
  /\ helpCalls' = RemoveAt(helpCalls, i)
  /\ UNCHANGED <<coreVars, exceptHelp, cache, allHelpCache>>

\* HelpService.getAllHelp up to its fetch
getAllHelp ==
  /\ allHelpCache = NULL
  /\ Len(helpCalls) < MaxHelpCalls
  /\ helpCalls' = Append(helpCalls, [op |-> "getAllHelp", key |-> "*"])
  /\ UNCHANGED <<coreVars, exceptHelp, cache, allHelpCache, helpResult>>

\* GET /help answered with a JSON body, OK or not: the body is kept and
\* each of its entries is put into the cache
GetAllHelpAnswered(i, ok) ==
  /\ i \in 1..Len(helpCalls)
  /\ helpCalls[i].op = "getAllHelp"
  /\ LET data == IF ok THEN Help ELSE ErrorBody
     IN  /\ allHelpCache' = Some(data)
         /\ cache' = [k \in HelpKeys |->
                        IF k \in DOMAIN data THEN Some(data[k]) ELSE cache[k]]
  /\ helpCalls' = RemoveAt(helpCalls, i)
  /\ UNCHANGED <<coreVars, exceptHelp, helpResult>>

\* the fetch of GET /help throws: {} is returned
GetAllHelpThrows(i) ==
  /\ i \in 1..Len(helpCalls)
  /\ helpCalls[i].op = "getAllHelp"
  /\ helpCalls' = RemoveAt(helpCalls, i)
  /\ UNCHANGED <<coreVars, exceptHelp, cache, allHelpCache, helpResult>>

\* HelpService.clearCache
clearCache ==
  /\ cache' = [k \in HelpKeys |-> NULL]
  /\ allHelpCache' = NULL
  /\ UNCHANGED <<coreVars, exceptHelp, helpCalls, helpResult>>

InitHelpService ==
  /\ InitIdle
  /\ InitPanels

NextHelp ==
  \/ \E metricKey \in HelpKeys : getHelp(metricKey)
  \/ \E i \in 1..MaxHelpCalls : GetHelpOk(i)
  \/ \E i \in 1..MaxHelpCalls : GetHelpFail(i)
  \/ getAllHelp
  \/ \E i \in 1..MaxHelpCalls, ok \in BOOLEAN : GetAllHelpAnswered(i, ok)
  \/ \E i \in 1..MaxHelpCalls : GetAllHelpThrows(i)
  \/ clearCache

SpecHelp == InitHelpService /\ [][NextHelp]_vars

\* ----------------------------------------------------------------- claims
Last(s) == s[Len(s)]

\* client c sends a commit request in this step
Sends(c) == Len(inflight'[c]) = Len(inflight[c]) + 1

\* the commit request in slot i of client c is answered in this step
AnsweredAt(c, i) == i \in Slots(c) /\ inflight'[c] = RemoveAt(inflight[c], i)

\* ... and the answer is a success
CommittedAt(c, i) == AnsweredAt(c, i) /\ Len(log') = Len(log) + 1

RECURSIVE LogSum(_, _)
LogSum(lg, b) ==
  IF lg = <<>> THEN 0
  ELSE (IF Head(lg).batch_id = b THEN Head(lg).quantity ELSE 0) + LogSum(Tail(lg), b)

\* C1: an actor who is not a Manager (an unresolved user included) never
\* sends a commit request for more than the FIFO batch the screen holds, from
\* placeOrder or from submitOverride, and the step that raises the FIFO
\* Violation alert leaves the requests, the stock, the log and the cadence
\* row as they were.
C1_FifoViolationRejected ==
  [][\A c \in Clients :
       ~IsManager(c) =>
         /\ Sends(c) => Last(inflight'[c]).body.quantity <= fifoBatch[c][1].quantity
         /\ (alert'[c] = "FIFO Violation" /\ alert[c] # "FIFO Violation") =>
              UNCHANGED <<inflight, stock, log, cadence>>]_vars

C1_Witness ==
  \E c \in Clients :
    /\ alert[c] = "FIFO Violation"
    /\ ~IsManager(c)
    /\ fifoBatch[c] # NULL
    /\ value[c] > fifoBatch[c][1].quantity
    /\ inflight[c] = <<>>
    /\ log = <<>>

\* C2: a suggested quantity changes only when the acting user is a Manager:
\* while the session user is an Employee (or there is none), no override of
\* a prediction's suggested quantity takes effect.
SessionRole == IF sessionUser = NULL THEN NULL ELSE Some(RoleOf(sessionUser[1]))

C2_OverrideOnlyByManager ==
  [][SessionRole # Some(MANAGER_ROLE) => predictions' = predictions]_vars

\* C3: the log row written for a Manager's override commit that exceeds the
\* FIFO batch records the override reason.
C3_OverrideReasonLogged ==
  [][\A c \in Clients : \A i \in Slots(c) :
       LET req == inflight[c][i]
       IN  (/\ CommittedAt(c, i)
            /\ req.kind = "override"
            /\ req.closure.role = Some(MANAGER_ROLE)
            /\ req.closure.qty > req.closure.fifoBatch.quantity)
           => /\ "reason" \in DOMAIN Last(log')
              /\ Last(log').reason = req.closure.form[1].reason]_vars

\* C4: no override submitted with an empty reason is committed.
C4_OverrideNeedsReason ==
  [][\A c \in Clients : \A i \in Slots(c) :
       (CommittedAt(c, i) /\ inflight[c][i].kind = "override")
         => inflight[c][i].closure.form[1].reason # ""]_vars

\* C5: when an actor who is not a Manager sends a commit request, its
\* quantity is not greater than what the ledger holds, at that moment, for
\* the FIFO batch of the (store, product).
C5_CeilingAgainstLedger ==
  [][\A c \in Clients :
       (~IsManager(c) /\ Sends(c)) =>
         /\ FifoOf(stock) # NULL
         /\ Last(inflight'[c]).body.quantity <= stock[FifoOf(stock)[1]]]_vars

\* C6: every replenishment of a batch the FIFO Allocator selected, dated or
\* not, commits unless persistence itself fails: a request that ends in an
\* error is one whose log row the schema accepts, and a committed request of
\* quantity Q raises the stock row by exactly Q and appends exactly one row.
C6_EveryFifoBatchCommits ==
  [][\A c \in Clients : \A i \in Slots(c) :
       LET body == inflight[c][i].body
       IN  /\ (AnsweredAt(c, i) /\ alert'[c] = "Error") => LogRowAccepted(LogRow(body))
           /\ CommittedAt(c, i) =>
                /\ stock'[body.batch_id] = stock[body.batch_id] + body.quantity
                /\ SubSeq(log', 1, Len(log)) = log]_vars

\* C7: commit is atomic: the log changes only by one appended row, in the
\* same step as the stock row of that batch changes by the row's quantity
\* and the cadence row's last_replenishment_date is set; and neither the
\* stock (sales apart) nor the cadence row changes without a log row.
C7_CommitAtomic ==
  [][/\ log' # log =>
          \E c \in Clients : \E i \in Slots(c) :
            LET body == inflight[c][i].body
            IN  /\ Len(log') = Len(log) + 1
                /\ SubSeq(log', 1, Len(log)) = log
                /\ Last(log').batch_id = body.batch_id
                /\ Last(log').quantity = body.quantity
                /\ stock' = [stock EXCEPT ![body.batch_id] = @ + body.quantity]
                /\ cadence'.last_replenishment_date = Some(body.replenishment_date)
     /\ (stock' # stock /\ saleLines' = saleLines) => log' # log
     /\ cadence' # cadence => log' # log]_vars

C7_Witness ==
  /\ Len(log) = 1
  /\ log[1].quantity > 0
  /\ stock[log[1].batch_id] =
       stock0[log[1].batch_id] + log[1].quantity - saleLines[log[1].batch_id]
  /\ cadence.last_replenishment_date = Some(log[1].timestamp)
  /\ \E c \in Clients : alert[c] = "Success"

\* C8: a commit request that ends in the Error alert (non-OK response or a
\* thrown fetch) leaves the stock, the log and the cadence row unchanged, and
\* on the client no confirmation is recorded and the quantity and the form
\* stay as they were.
C8_FailedCommitLeavesNothing ==
  [][\A c \in Clients :
       (Len(inflight'[c]) < Len(inflight[c]) /\ alert'[c] = "Error") =>
         /\ UNCHANGED <<stock, log, cadence>>
         /\ orderConfirmation'[c] = orderConfirmation[c]
         /\ value'[c] = value[c]
         /\ modalVisible'[c] = modalVisible[c]]_vars

C8_Witness ==
  \E c \in Clients :
    /\ alert[c] = "Error"
    /\ modalVisible[c]
    /\ fifoBatch[c] # NULL
    /\ Number(overrideQuantity[c]) = Some(3)
    /\ value[c] # 3
    /\ inflight[c] = <<>>
    /\ orderConfirmation[c] = NULL
    /\ log = <<>>
    /\ stock = stock0

\* C9: no update of a stock row is lost: each row holds its seeded quantity
\* plus every logged replenishment of its batch, less the units sold, also
\* when two commits on the row were in flight together.
C9_NoLostUpdate ==
  /\ Len(origin) = Len(log)
  /\ \A b \in Batches : stock[b] = stock0[b] + LogSum(log, b) - saleLines[b]

C9_Witness ==
  /\ Len(log) = 2
  /\ origin[1] > 0
  /\ log[1].batch_id = log[2].batch_id
  /\ log[1].quantity > 0
  /\ log[2].quantity > log[1].quantity
  /\ stock[log[1].batch_id] = stock0[log[1].batch_id] + log[1].quantity
                                + log[2].quantity - saleLines[log[1].batch_id]

\* C10: a commit request equal to one already logged is applied again in
\* full: the stock row rises by its quantity once more and one more row,
\* equal to the earlier one, is appended.
C10_ReplayAppliedTwice ==
  [][\A c \in Clients : \A i \in Slots(c) :
       LET body == inflight[c][i].body
       IN  (/\ AnsweredAt(c, i)
            /\ alert'[c] = "Success"
            /\ \E k \in 1..Len(log) : log[k] = LogRow(body))
           => /\ stock'[body.batch_id] = stock[body.batch_id] + body.quantity
              /\ Len(log') = Len(log) + 1
              /\ \E k \in 1..Len(log) : log[k] = Last(log')]_vars

C10_Witness ==
  /\ Len(log) = 2
  /\ log[1] = log[2]
  /\ log[1].quantity > 0
  /\ stock[log[1].batch_id] = stock0[log[1].batch_id] + 2 * log[1].quantity
                                - saleLines[log[1].batch_id]

\* C11: with at least one batch of positive quantity, the FIFO Allocator
\* answers a batch of positive quantity such that every other batch of
\* positive quantity is undated or expires later, or expires the same day
\* and has a higher identity; an undated batch is answered only when every
\* batch of positive quantity is undated, and then the lowest identity.
C11_FifoSelection ==
  (fifoResult.asked /\ \E b \in AllocBatches : ledger[b] > 0) =>
    \E b \in AllocBatches :
      /\ fifoResult.batch = Some(b)
      /\ ledger[b] > 0
      /\ \A o \in AllocBatches \ {b} :
           ledger[o] > 0 =>
             IF expiry[b] = NULL
               THEN expiry[o] = NULL /\ b < o
               ELSE \/ expiry[o] = NULL
                    \/ expiry[b][1] < expiry[o][1]
                    \/ (expiry[b][1] = expiry[o][1] /\ b < o)

C11_Witness ==
  /\ fifoResult.asked
  /\ \A b \in AllocBatches : ledger[b] > 0
  /\ expiry = [b \in AllocBatches |-> IF b = 1 THEN NULL ELSE Some(2)]
  /\ fifoResult.batch = Some(2)

\* C12: when no batch of the product has positive quantity the FIFO lookup
\* ends with no batch held and the Error alert, the screen staying open; and
\* no commit request is sent, by placeOrder or by submitOverride, from a
\* screen that holds no FIFO batch.
C12_NoBatchNoCommit ==
  [][\A c \in Clients :
       /\ (/\ fifoPc[c] = "pending"
           /\ fifoPc'[c] = "done"
           /\ \A b \in Batches : stock[b] = 0)
          => /\ fifoBatch'[c] = NULL
             /\ selectedBatchId'[c] = NULL
             /\ alert'[c] = "Error"
             /\ userPc'[c] = userPc[c]
       /\ Sends(c) => fifoBatch[c] # NULL /\ selectedBatchId[c] # NULL]_vars

C12_Witness ==
  \E c \in Clients :
    /\ \A b \in Batches : stock[b] = 0
    /\ fifoPc[c] = "done"
    /\ fifoBatch[c] = NULL
    /\ alert[c] = "Error"
    /\ modalVisible[c]
    /\ Number(overrideQuantity[c]) = Some(3)
    /\ inflight[c] = <<>>
    /\ log = <<>>

C14_PriorityRule ==
  shownPriority # NULL =>
    shownPriority[1] = IF item.status \in {"Critical", "Low"} THEN "High"
                       ELSE IF item.expiring THEN "Medium"
                       ELSE "Low"

\* C15: the cadence row's next due day is its last_replenishment_date plus
\* its frequency, and "due immediately" while that date is null; a committed
\* replenishment sets last_replenishment_date to the effective date its
\* request carried, so the next due day is that date plus the frequency.
C15_NextDue ==
  [][/\ cadence.last_replenishment_date = NULL => NextDue(cadence) = NULL
     /\ cadence.last_replenishment_date # NULL =>
          NextDue(cadence) =
            Some(cadence.last_replenishment_date[1] + cadence.replenishment_frequency)
     /\ log' # log =>
          \E c \in Clients : \E i \in Slots(c) :
            LET effective == inflight[c][i].body.replenishment_date
            IN  /\ AnsweredAt(c, i)
                /\ cadence'.last_replenishment_date = Some(effective)
                /\ NextDue(cadence') = Some(effective + cadence.replenishment_frequency)]_vars

C15_Witness ==
  /\ Len(log) = 1
  /\ today = 2
  /\ cadence = [replenishment_frequency |-> 3, last_replenishment_date |-> Some(1)]
  /\ NextDue(cadence) = Some(4)

\* C16: the frequency of the cadence row and the frequency selected on the
\* Settings screen are in {1, 2, 3} in every state; a request to set a
\* frequency in that range sets it, and one outside it fails with
\* InvalidCadence and leaves the row as it was.
C16_FrequencyRange ==
  [][/\ cadence'.replenishment_frequency \in {1, 2, 3}
     /\ replenishmentFreq' \in {1, 2, 3}
     /\ (frequencyRequest' # frequencyRequest \/ cadence'.replenishment_frequency
                                                   # cadence.replenishment_frequency) =>
          LET r == frequencyRequest'[1]
          IN  IF r.frequency \in {1, 2, 3}
                THEN /\ r.result = "ok"
                     /\ cadence'.replenishment_frequency = r.frequency
                ELSE /\ r.result = "InvalidCadence"
                     /\ cadence' = cadence]_vars

C16_Witness ==
  /\ frequencyRequest = Some([frequency |-> 4, result |-> "InvalidCadence"])
  /\ cadence.replenishment_frequency = 3
  /\ replenishmentFreq = 1

\* C17: the quantity of every StockLevel row is never negative, whatever
\* commits were made, those of the override form included, and the
\* quantity and reorder_level of the row the overview reads are not
\* negative either.
C17_NonNegative ==
  /\ \A b \in Batches : stock[b] >= 0
  /\ stockRow.quantity >= 0
  /\ stockRow.reorder_level >= 0

\* C18: no two HAS_STOCK rows have the same (store_id, batch_id).
C18_OneRowPerStoreBatch ==
  \A i, j \in DOMAIN hasStockRows :
    (hasStockRows[i].store_id = hasStockRows[j].store_id
     /\ hasStockRows[i].batch_id = hasStockRows[j].batch_id) => i = j

\* C19: no two cadence rows have the same (product_id, store_id); an
\* INSERT for a pair that has a row is refused, and no INSERT changes or
\* removes a row that exists.
C19_OneRowPerProductStore ==
  [][/\ \A i, j \in DOMAIN frequencyRows' :
          (frequencyRows'[i].product_id = frequencyRows'[j].product_id
           /\ frequencyRows'[i].store_id = frequencyRows'[j].store_id) => i = j
     /\ Len(frequencyRows') >= Len(frequencyRows)
     /\ SubSeq(frequencyRows', 1, Len(frequencyRows)) = frequencyRows
     /\ (statement' # NULL /\ statement'[1].error = "Duplicate entry") =>
          frequencyRows' = frequencyRows]_vars

\* an INSERT for the pair (1, 2), which has a row, was refused after an
\* INSERT for the new pair (2, 2) was accepted
C19_Witness ==
  /\ statement = Some([table |-> "REPLENISHMENT_FREQUENCY", error |-> "Duplicate entry"])
  /\ Len(frequencyRows) = Len(SeededFrequencies) + 1
  /\ frequencyRows[Len(frequencyRows)].product_id = 2
  /\ frequencyRows[Len(frequencyRows)].store_id = 2
  /\ SubSeq(frequencyRows, 1, Len(SeededFrequencies)) = SeededFrequencies

\* C20: every step leaves the entries the log had in place and unchanged:
\* a commit, an override, a cancelled form and a history query add entries
\* at the end or leave the log alone.
C20_AppendOnly ==
  [][/\ Len(log') >= Len(log)
     /\ SubSeq(log', 1, Len(log)) = log]_vars

\* the history shows the first of two entries, fetched before an override
\* added the second
C20_Witness ==
  /\ Len(log) = 2
  /\ log[1].quantity # log[2].quantity
  /\ Len(history) = 1
  /\ history[1].quantity = log[1].quantity
  /\ ~historyLoading

\* C21: once the order screen shows the confirmation of a committed
\* action, it sends no further commit request, and its quantity changes
\* no more except by the answer to a request sent before.
C21_CommittedIsTerminal ==
  [][\A c \in Clients :
       orderConfirmation[c] # NULL =>
         /\ ~Sends(c)
         /\ inflight'[c] = inflight[c] => value'[c] = value[c]]_vars

\* C22: a client's request carries the acting user in its body, and the
\* user a client acts as is the one who was logged in or the one the client
\* itself supplied in its own fallback request: it is never one that
\* another client's action put into the session.
C22_ActorNotShared ==
  [][\A d \in Clients :
       /\ Sends(d) =>
            Last(inflight'[d]).body.user_id \in {UserId(d), Some(DEFAULT_USER_ID)}
       /\ currentUser'[d] # currentUser[d] =>
            \/ userPc[d] = "post"
            \/ currentUser'[d] = Some(UserRecord(LoggedIn))]_vars

\* C23: when a product's average daily sales are 0, the overview reports
\* its days to out of stock as null; the stock screen stores the reported
\* value unchanged, null included, and shows a dash for null and the
\* number otherwise.
C23_NullDaysPassThrough ==
  /\ overviewJson # NULL =>
       /\ forecastInput.average_daily_sales = 0 <=>
            overviewJson[1].days_to_out_of_stock = NULL
       /\ forecastInput.average_daily_sales # 0 =>
            overviewJson[1].days_to_out_of_stock[1] * forecastInput.average_daily_sales
              = forecastInput.total_quantity
  /\ stockData # <<>> =>
       stockData[1].days_to_out_of_stock = overviewJson[1].days_to_out_of_stock
  /\ daysText # NULL =>
       IF forecastInput.average_daily_sales = 0 THEN daysText = Some(EmDash)
       ELSE /\ AllDigits(daysText[1])
            /\ DigitsValue(daysText[1]) * forecastInput.average_daily_sales
                 = forecastInput.total_quantity

C23_Witness ==
  /\ forecastInput = [total_quantity |-> 8, average_daily_sales |-> 0]
  /\ stockData # <<>>
  /\ stockData[1].days_to_out_of_stock = NULL
  /\ stockError = NULL
  /\ daysText = Some(EmDash)

\* the positions of the log entries of (store, product p), latest first
RECURSIVE EntriesLatestFirst(_, _, _)
EntriesLatestFirst(lg, p, n) ==
  IF n = 0 THEN <<>>
  ELSE IF lg[n].store_id = STORE_ID /\ lg[n].product_id = p
         THEN <<n>> \o EntriesLatestFirst(lg, p, n - 1)
         ELSE EntriesLatestFirst(lg, p, n - 1)

\* C24: when a history request for product p is answered, the history
\* shown becomes empty if the query failed, and otherwise lists exactly
\* the log entries of (store, p), each once, the most recent first and
\* from the beginning, whatever was shown before.
C24_HistoryLatestFirst ==
  [][Len(historyCalls') < Len(historyCalls) =>
       \E i \in 1..Len(historyCalls) :
         /\ historyCalls' = RemoveAt(historyCalls, i)
         /\ \/ history' = <<>>
            \/ LET at == EntriesLatestFirst(log, historyCalls[i], Len(log))
               IN  /\ Len(history') = Len(at)
                   /\ \A k \in 1..Len(at) :
                        /\ history'[k].date = log[at[k]].timestamp
                        /\ history'[k].quantity = log[at[k]].quantity
                        /\ history'[k].expiration = log[at[k]].expiration_date
                        /\ history'[k].batch =
                             <<"B", "a", "t", "c", "h", " ">> \o String(log[at[k]].batch_id)
                        /\ history'[k].user =
                             <<"U", "s", "e", "r", " ">> \o String(log[at[k]].user_id[1])]_vars

\* two entries of different quantities are shown, the later one first
C24_Witness ==
  /\ Len(log) = 2
  /\ log[1].quantity # log[2].quantity
  /\ Len(history) = 2
  /\ history[1].quantity = log[2].quantity
  /\ history[2].quantity = log[1].quantity
  /\ historyCalls = <<>>

\* C25: a client comes to act as a Manager only in a step taken while the
\* session holds a Manager, and no step of the order screen changes the
\* user the session holds.
C25_ManagerOnlyFromSession ==
  [][/\ \A c \in Clients :
          (IsManager(c)' /\ ~IsManager(c)) =>
            (sessionUser # NULL /\ RoleOf(sessionUser[1]) = MANAGER_ROLE)
     /\ sessionUser' = sessionUser]_vars

\* C26: in every state the override form of a client is visible only if
\* its resolved current user has the Manager role, and every override
\* request in flight was submitted by a client whose user had that role.
C26_FormOnlyForManager ==
  \A c \in Clients :
    /\ modalVisible[c] => RoleId(c) = Some(MANAGER_ROLE)
    /\ \A i \in Slots(c) :
         inflight[c][i].kind = "override" =>
           inflight[c][i].closure.role = Some(MANAGER_ROLE)

\* the Manager's form is open with an override request in flight
C26_Witness ==
  \E c \in Clients :
    /\ modalVisible[c]
    /\ inflight[c] # <<>>
    /\ Last(inflight[c]).kind = "override"
    /\ currentUser[c] = Some([user_id |-> DEFAULT_MANAGER_ID, role_id |-> MANAGER_ROLE])

\* C27: in every state at most one commit request of an order screen is
\* outstanding.
C27_OneOutstandingCommit ==
  \A c \in Clients : Len(inflight[c]) <= 1

\* C28: when the answer to the FIFO batch fetch arrives after the stepper
\* has moved the quantity from the value the screen opened with, the
\* quantity stays what the user set.
C28_FifoAnswerKeepsQuantity ==
  [][\A c \in Clients :
       (fifoPc[c] = "pending" /\ fifoPc'[c] = "done" /\ value[c] # 0) =>
         value'[c] = value[c]]_vars

\* C29: the answer to a history request for a product other than the one
\* requested most recently leaves the history shown as it is.
C29_HistoryOfLatestRequest ==
  [][\A i \in 1..Len(historyCalls) :
       (historyCalls' = RemoveAt(historyCalls, i)
        /\ \A j \in 1..Len(historyCalls) : historyCalls[j] = historyCalls[i] => j = i
        /\ Some(historyCalls[i]) # requested) =>
         history' = history]_vars

\* C30: in every state each entry of the help cache is the help text the
\* backend holds for its key, and a getHelp that returns without a request
\* returns that text.
C30_CacheHoldsSuccesses ==
  /\ \A k \in HelpKeys :
       cache[k] # NULL => (k \in DOMAIN Help /\ cache[k] = Some(Help[k]))
  /\ (helpResult # NULL /\ ~helpResult[1].fetched) =>
       /\ helpResult[1].key \in DOMAIN Help
       /\ helpResult[1].data = Some(Help[helpResult[1].key])

====
